---- MODULE Spec2Model ----
(***************************************************************************)
(* State-machine model of the RL recommendation service:                   *)
(*   main.py          process start-up (initialize_system, main)           *)
(*   api/app.py       the HTTP handlers of RecommendationAPI               *)
(*   auth/user_db.py  the UserDatabase                                     *)
(* ArticleDatabase, SessionManager, RecommendationEnv, DQNAgent and the    *)
(* Pretrainer are collaborators whose code is not part of the three files; *)
(* they are modelled from their documented contracts.                      *)
(***************************************************************************)
EXTENDS Integers, Sequences, FiniteSets, TLC

\* ------------------------------------------------------------------ bounds
MaxAsk == 2
MaxSalt == 1
MaxRegister == 1

\* ------------------------------------------------------------- value sets
Users == {"admin", "alice"}
Passwords == {"admin", "pw"}
Salts == 1..MaxSalt
Questions == {"disk", "network"}
\* Article sources a start-up may find: none, ids from 0, ids from 1.
Corpora == {{}, {0, 1}, {1, 2}}
AskIds == 1..MaxAsk

\* Optional values: <<>> is Python's None, <<v>> is a present value.
None == <<>>
Some(v) == <<v>>

EmptyMap == [u \in {} |-> <<>>]

VARIABLES
  corpus,        \* article ids held by the article source (ARTICLES_PATH / EXCEL_PATH)
  articles,      \* article_db's articles, in get_all_articles() order
  fileUsers,     \* content of data/users.json
  mainUsers,     \* users map of the UserDatabase built in initialize_system
  apiUsers,      \* users map of the UserDatabase built in RecommendationAPI.__init__
  sessions,      \* session_manager.sessions
  envQuestion,   \* question context the shared env was last reset with
  action_dim,    \* env.get_action_space_size()
  policy,        \* the agent's greedy choice per question
  initPc,        \* position of initialize_system
  pretrainPc,    \* position inside the pretraining try block
  pretrainAttempts,
  built,         \* components constructed so far
  log,           \* kinds of messages logged
  failedAt,      \* the step whose exception reached an outer except block
  initResult,    \* what initialize_system returned
  mainPc,        \* position of main
  running,       \* the coroutine holding the event loop (0: none)
  asks,          \* the /ask requests
  lastStats,     \* the last GET /session/{user_id} exchange
  lastRegister,  \* the last POST /register exchange
  created        \* usernames for which create_user returned True, in order

vars == <<corpus, articles, fileUsers, mainUsers, apiUsers, sessions, envQuestion,
          action_dim, policy, initPc, pretrainPc, pretrainAttempts, built, log,
          failedAt, initResult, mainPc, running, asks, lastStats,
          lastRegister, created>>

startupVars == <<initPc, pretrainPc, pretrainAttempts, built, log, failedAt,
                 initResult, mainPc>>
userVars == <<fileUsers, mainUsers, apiUsers, created>>
coreVars == <<corpus, articles, sessions, envQuestion, action_dim, policy>>
serveVars == <<running, asks, lastStats, lastRegister>>

\* ------------------------------------------------------------ UserDatabase

\* pwd_context.hash: an argon2 hash carries a fresh salt.
Hash(password, salt) == [pw |-> password, salt |-> salt]

\* pwd_context.verify
Verify(password, hashed) == hashed.pw = password

\* UserDatabase._load_users on a readable file (a missing file loads as {}).
LoadUsers(file) == file

\* UserDatabase.get_user: the record, or None.
get_user(users, username) ==
  IF username \in DOMAIN users THEN Some(users[username]) ELSE None

\* The users map a create_user call leaves behind.
PutUser(users, username, password, salt) ==
  [u \in DOMAIN users \cup {username} |->
     IF u = username
       THEN [username |-> username, hashed_password |-> Hash(password, salt)]
       ELSE users[u]]

\* The mutated create_user: the membership test is missing.
create_user_overwrites(users, username, password, salt) ==
  [ok |-> TRUE, users |-> PutUser(users, username, password, salt)]

\* UserDatabase.create_user: [ok, users]; users is also what _save_users writes.
create_user(users, username, password, salt) ==
  IF username \in DOMAIN users
    THEN [ok |-> FALSE, users |-> users]
    ELSE [ok |-> TRUE, users |-> PutUser(users, username, password, salt)]

\* UserDatabase.authenticate_user
authenticate_user(users, username, password) ==
  IF get_user(users, username) = None
    THEN FALSE
    ELSE Verify(password, users[username].hashed_password)

\* The demo-user seeding: if not get_user("admin"): create_user("admin", "admin").
SeedAdmin(users, salt) ==
  IF get_user(users, "admin") = None
    THEN create_user(users, "admin", "admin", salt)
    ELSE [ok |-> FALSE, users |-> users]

\* Users files a start-up may find.
InitialUserFiles ==
  { EmptyMap,
    [u \in {"alice"} |-> [username |-> u, hashed_password |-> Hash("pw", 1)]] }

\* --------------------------------------------------------- ArticleDatabase

RECURSIVE SortedSeq(_)
\* The ids of a set as a sequence in increasing order: the store's stable order.
SortedSeq(S) ==
  IF S = {} THEN <<>>
  ELSE LET m == CHOOSE x \in S : \A y \in S : x <= y
       IN <<[id |-> m]>> \o SortedSeq(S \ {m})

\* ArticleDatabase.get_all_articles
get_all_articles(store) == SortedSeq(store)

\* ArticleDatabase.get_article: lookup by identifier, None when absent.
get_article(arts, article_id) ==
  IF \E i \in 1..Len(arts) : arts[i].id = article_id
    THEN Some([id |-> article_id])
    ELSE None

\* ---------------------------------------------------------- SessionManager

\* Session maps SESSIONS_PATH may hold at start-up.
PersistedSessions ==
  { EmptyMap,
    [u \in {"alice"} |-> <<[question |-> "network", article |-> [id |-> 0], reward |-> 0]>>] }

\* SessionManager.create_session: an empty session if absent, else no change.
create_session(ss, user_id) ==
  IF user_id \in DOMAIN ss THEN ss
  ELSE [u \in DOMAIN ss \cup {user_id} |-> IF u = user_id THEN <<>> ELSE ss[u]]

\* SessionManager.add_interaction: appends, creating the session on first use.
add_interaction(ss, user_id, question, article, reward) ==
  LET base == create_session(ss, user_id)
  IN [base EXCEPT ![user_id] =
        Append(@, [question |-> question, article |-> article, reward |-> reward])]

RECURSIVE SumRewards(_)
SumRewards(s) == IF s = <<>> THEN 0 ELSE Head(s).reward + SumRewards(Tail(s))

\* SessionManager.get_session_stats: None without a session or interactions.
get_session_stats(ss, user_id) ==
  IF user_id \notin DOMAIN ss \/ ss[user_id] = <<>>
    THEN None
    ELSE Some([user_id |-> user_id,
               count |-> Len(ss[user_id]),
               reward_sum |-> SumRewards(ss[user_id])])

\* ------------------------------------------------------ Environment, Agent

\* RecommendationEnv.get_action_space_size: one action per article.
get_action_space_size(arts) == Len(arts)

\* The topic an article is tagged with.
Topic(article) == IF article.id % 2 = 0 THEN "disk" ELSE "network"

\* RecommendationEnv._calculate_reward: relevance of the article to the
\* question the env was last reset with, in [0, 1].
calculate_reward(ctx, article) == IF Topic(article) = ctx THEN 1 ELSE 0

\* The greedy policies an agent over n actions can hold.
Policies(n) == [Questions -> 0..(n - 1)]

\* DQNAgent.select_action(state, training=False): the argmax for the state.
select_action(pol, question) == pol[question]

\* --------------------------------------------------------------- start-up

Init ==
  /\ corpus \in Corpora
  /\ fileUsers \in InitialUserFiles
  /\ articles = <<>>
  /\ mainUsers = EmptyMap
  /\ apiUsers = EmptyMap
  /\ sessions = EmptyMap
  /\ envQuestion = ""
  /\ action_dim = 0
  /\ policy = <<>>
  /\ initPc = "config"
  /\ pretrainPc = "idle"
  /\ pretrainAttempts = 0
  /\ built = {}
  /\ log = {}
  /\ failedAt = "none"
  /\ initResult = "pending"
  /\ mainPc = "initialize"
  /\ running = 0
  /\ asks = [r \in AskIds |-> [pc |-> "idle", user |-> "", question |-> "",
                               action |-> None, article |-> None, reward |-> None,
                               ctx |-> None, status |-> 0, session_id |-> "",
                               trace |-> <<>>, recreated |-> FALSE]]
  /\ lastStats = [seq |-> 0, caller |-> "", user_id |-> "", status |-> 0,
                  consulted |-> FALSE, body |-> None]
  /\ lastRegister = [seq |-> 0, username |-> "", status |-> 0]
  /\ created = <<>>

\* The steps of initialize_system whose exception reaches its outer except.
FailableSteps ==
  {"config", "article_db", "user_db", "session_manager", "state_encoder",
   "env", "agent", "response_generator"}

\* main.py 100-104: except Exception: log the error, return None.
InitFail ==
  /\ initPc \in FailableSteps
  /\ failedAt' = initPc
  /\ initPc' = "failed"
  /\ initResult' = "None"
  /\ log' = log \cup {"error_init_failed"}
  /\ UNCHANGED <<pretrainPc, pretrainAttempts, built, mainPc>>
  /\ UNCHANGED <<userVars, coreVars, serveVars>>

\* main.py 25-26
InitConfig ==
  /\ initPc = "config"
  /\ initPc' = "article_db"
  /\ built' = built \cup {"config"}
  /\ UNCHANGED <<pretrainPc, pretrainAttempts, log, failedAt, initResult, mainPc>>
  /\ UNCHANGED <<userVars, coreVars, serveVars>>

\* main.py 29-31
InitArticleDb ==
  /\ initPc = "article_db"
  /\ articles' = get_all_articles(corpus)
  /\ initPc' = "user_db"
  /\ built' = built \cup {"article_db"}
  /\ UNCHANGED <<pretrainPc, pretrainAttempts, log, failedAt, initResult, mainPc>>
  /\ UNCHANGED <<corpus, sessions, envQuestion, action_dim, policy>>
  /\ UNCHANGED <<userVars, serveVars>>

\* main.py 34-37: UserDatabase(), then the admin seeding.
InitUserDb ==
  /\ initPc = "user_db"
  /\ \E salt \in Salts :
       LET res == SeedAdmin(LoadUsers(fileUsers), salt)
       IN /\ mainUsers' = res.users
          /\ fileUsers' = IF res.ok THEN res.users ELSE fileUsers
          /\ created' = IF res.ok THEN Append(created, "admin") ELSE created
  /\ initPc' = "check_articles"
  /\ built' = built \cup {"user_db"}
  /\ UNCHANGED <<pretrainPc, pretrainAttempts, log, failedAt, initResult, mainPc>>
  /\ UNCHANGED <<apiUsers, coreVars, serveVars>>

\* The mutated corpus check: start-up goes on with no article.
InitCheckArticlesAlwaysPasses ==
  /\ initPc = "check_articles"
  /\ initPc' = "session_manager"
  /\ UNCHANGED <<pretrainPc, pretrainAttempts, built, log, failedAt, initResult, mainPc>>
  /\ UNCHANGED <<userVars, coreVars, serveVars>>

\* main.py 39-41: if not articles: log the error, return None.
InitCheckArticles ==
  /\ initPc = "check_articles"
  /\ IF articles = <<>>
       THEN /\ initPc' = "refused"
            /\ initResult' = "None"
            /\ log' = log \cup {"error_no_articles"}
       ELSE /\ initPc' = "session_manager"
            /\ UNCHANGED <<initResult, log>>
  /\ UNCHANGED <<pretrainPc, pretrainAttempts, built, failedAt, mainPc>>
  /\ UNCHANGED <<userVars, coreVars, serveVars>>

\* main.py 44-45: SessionManager(config.SESSIONS_PATH) loads the stored sessions.
InitSessionManager ==
  /\ initPc = "session_manager"
  /\ sessions' \in PersistedSessions
  /\ initPc' = "state_encoder"
  /\ built' = built \cup {"session_manager"}
  /\ UNCHANGED <<pretrainPc, pretrainAttempts, log, failedAt, initResult, mainPc>>
  /\ UNCHANGED <<corpus, articles, envQuestion, action_dim, policy>>
  /\ UNCHANGED <<userVars, serveVars>>

\* main.py 48-57
InitStateEncoder ==
  /\ initPc = "state_encoder"
  /\ initPc' = "env"
  /\ built' = built \cup {"state_encoder"}
  /\ UNCHANGED <<pretrainPc, pretrainAttempts, log, failedAt, initResult, mainPc>>
  /\ UNCHANGED <<userVars, coreVars, serveVars>>

\* main.py 60-66
InitEnv ==
  /\ initPc = "env"
  /\ action_dim' = get_action_space_size(articles)
  /\ initPc' = "agent"
  /\ built' = built \cup {"env"}
  /\ UNCHANGED <<pretrainPc, pretrainAttempts, log, failedAt, initResult, mainPc>>
  /\ UNCHANGED <<corpus, articles, sessions, envQuestion, policy>>
  /\ UNCHANGED <<userVars, serveVars>>

\* main.py 69-70: DQNAgent(state_dim, action_dim, config.model), randomly initialised.
InitAgent ==
  /\ initPc = "agent"
  /\ policy' \in Policies(action_dim)
  /\ initPc' = "pretrain"
  /\ built' = built \cup {"agent"}
  /\ UNCHANGED <<pretrainPc, pretrainAttempts, log, failedAt, initResult, mainPc>>
  /\ UNCHANGED <<corpus, articles, sessions, envQuestion, action_dim>>
  /\ UNCHANGED <<userVars, serveVars>>

\* The statements of the pretraining try block (main.py 74-79), in order.
PretrainStages == <<"import", "construct", "supervised", "evaluate", "log">>

StageIndex(stage) == CHOOSE i \in 1..Len(PretrainStages) : PretrainStages[i] = stage

InPretrainStage == \E i \in 1..Len(PretrainStages) : PretrainStages[i] = pretrainPc

\* main.py 73: the try block is entered.
PretrainBegin ==
  /\ initPc = "pretrain"
  /\ pretrainPc = "idle"
  /\ pretrainPc' = PretrainStages[1]
  /\ pretrainAttempts' = pretrainAttempts + 1
  /\ UNCHANGED <<initPc, built, log, failedAt, initResult, mainPc>>
  /\ UNCHANGED <<userVars, coreVars, serveVars>>

\* main.py 74-79: one statement of the try block succeeds; pretrain_with_supervised
\* rewrites the agent's parameters.
PretrainStep ==
  /\ initPc = "pretrain"
  /\ InPretrainStage
  /\ LET i == StageIndex(pretrainPc)
     IN /\ IF pretrainPc = "supervised"
             THEN policy' \in Policies(action_dim)
             ELSE policy' = policy
        /\ IF i < Len(PretrainStages)
             THEN /\ pretrainPc' = PretrainStages[i + 1]
                  /\ UNCHANGED <<initPc, log>>
             ELSE /\ pretrainPc' = "completed"
                  /\ initPc' = "response_generator"
                  /\ log' = log \cup {"info_pretraining_completed"}
  /\ UNCHANGED <<pretrainAttempts, built, failedAt, initResult, mainPc>>
  /\ UNCHANGED <<corpus, articles, sessions, envQuestion, action_dim>>
  /\ UNCHANGED <<userVars, serveVars>>

\* The mutated handler: a failed pretraining reaches the outer except block.
PretrainFailAborts ==
  /\ initPc = "pretrain"
  /\ InPretrainStage
  /\ pretrainPc' = "skipped"
  /\ failedAt' = "pretrain"
  /\ initPc' = "failed"
  /\ initResult' = "None"
  /\ log' = log \cup {"error_init_failed"}
  /\ UNCHANGED <<pretrainAttempts, built, mainPc>>
  /\ UNCHANGED <<userVars, coreVars, serveVars>>

\* The mutated handler: a failed pretraining is started again.
PretrainFailRetries ==
  /\ initPc = "pretrain"
  /\ InPretrainStage
  /\ pretrainAttempts < 2
  /\ pretrainPc' = PretrainStages[1]
  /\ pretrainAttempts' = pretrainAttempts + 1
  /\ log' = log \cup {"warning_pretraining_skipped"}
  /\ UNCHANGED <<initPc, built, failedAt, initResult, mainPc>>
  /\ UNCHANGED <<userVars, coreVars, serveVars>>

\* main.py 80-81: a statement of the try block raises; except Exception logs the
\* warning and initialize_system goes on.
PretrainFail ==
  /\ initPc = "pretrain"
  /\ InPretrainStage
  /\ pretrainPc' = "skipped"
  /\ initPc' = "response_generator"
  /\ log' = log \cup {"warning_pretraining_skipped"}
  /\ UNCHANGED <<pretrainAttempts, built, failedAt, initResult, mainPc>>
  /\ UNCHANGED <<userVars, coreVars, serveVars>>

\* main.py 84-97: ResponseGenerator(article_db), then the components are returned.
InitResponseGenerator ==
  /\ initPc = "response_generator"
  /\ initPc' = "returned"
  /\ initResult' = "components"
  /\ built' = built \cup {"response_generator"}
  /\ UNCHANGED <<pretrainPc, pretrainAttempts, log, failedAt, mainPc>>
  /\ UNCHANGED <<userVars, coreVars, serveVars>>

\* main.py 107-111
MainAfterInit ==
  /\ mainPc = "initialize"
  /\ initResult # "pending"
  /\ IF initResult = "None"
       THEN /\ mainPc' = "exited"
            /\ log' = log \cup {"error_initialization_failed"}
       ELSE /\ mainPc' = "create_api"
            /\ log' = log
  /\ UNCHANGED <<initPc, pretrainPc, pretrainAttempts, built, failedAt, initResult>>
  /\ UNCHANGED <<userVars, coreVars, serveVars>>

\* main.py 115-121 and app.py 19-31: the API is constructed with a UserDatabase
\* of its own, seeded like the first.
MainCreateApi ==
  /\ mainPc = "create_api"
  /\ \E salt \in Salts :
       LET res == SeedAdmin(LoadUsers(fileUsers), salt)
       IN /\ apiUsers' = res.users
          /\ fileUsers' = IF res.ok THEN res.users ELSE fileUsers
          /\ created' = IF res.ok THEN Append(created, "admin") ELSE created
  /\ mainPc' = "run_server"
  /\ built' = built \cup {"api"}
  /\ UNCHANGED <<initPc, pretrainPc, pretrainAttempts, log, failedAt, initResult>>
  /\ UNCHANGED <<mainUsers, coreVars, serveVars>>

\* main.py 123-133: uvicorn.run(api.app, ...) serves on one event loop.
MainRunServer ==
  /\ mainPc = "run_server"
  /\ mainPc' = "serving"
  /\ UNCHANGED <<initPc, pretrainPc, pretrainAttempts, built, log, failedAt, initResult>>
  /\ UNCHANGED <<userVars, coreVars, serveVars>>

\* main.py 135-138: except Exception around the API construction and uvicorn.run.
MainFail ==
  /\ mainPc \in {"create_api", "run_server"}
  /\ failedAt' = mainPc
  /\ mainPc' = "exited"
  /\ log' = log \cup {"error_failed_to_start_server"}
  /\ UNCHANGED <<initPc, pretrainPc, pretrainAttempts, built, initResult>>
  /\ UNCHANGED <<userVars, coreVars, serveVars>>

\* ---------------------------------------------------------------- serving

Serving == mainPc = "serving"

\* The mutated handler body: the coroutine is suspended after the session test.
AwaitAfterCheck == {"check"}

\* The mutated handler body: the coroutine is suspended after env.reset.
AwaitAfterReset == {"reset"}

\* The statements of ask_question's body after which the coroutine awaits: the
\* body of the async def holds no await, every call in it is synchronous.
AwaitPoints == {}

\* Who holds the event loop after request r ran the statement `step`.
Held(step, r) == IF step \in AwaitPoints THEN 0 ELSE r

\* The event loop runs r: r holds it, or nobody does.
CanRun(r) == running \in {0, r}

\* app.py 59-64 with get_current_user: the users a bearer token can name, those
\* POST /login answers with a token for some password.
Authenticated ==
  {u \in DOMAIN apiUsers : \E p \in Passwords : authenticate_user(apiUsers, u, p)}

\* app.py 52-57: POST /register.
Register(username, password, salt) ==
  /\ Serving
  /\ running = 0
  /\ lastRegister.seq < MaxRegister
  /\ LET res == create_user(apiUsers, username, password, salt)
     IN /\ apiUsers' = res.users
        /\ fileUsers' = IF res.ok THEN res.users ELSE fileUsers
        /\ created' = IF res.ok THEN Append(created, username) ELSE created
        /\ lastRegister' = [seq |-> lastRegister.seq + 1, username |-> username,
                            status |-> IF res.ok THEN 200 ELSE 400]
  /\ UNCHANGED <<mainUsers, running, asks, lastStats>>
  /\ UNCHANGED <<startupVars, coreVars>>

\* The mutated handler: the ownership test is missing.
StatsResponseUnguarded(caller, user_id) ==
  LET stats == get_session_stats(sessions, user_id)
  IN IF stats = None
       THEN [status |-> 404, consulted |-> TRUE, body |-> None]
       ELSE [status |-> 200, consulted |-> TRUE, body |-> stats]

\* app.py 128-135: the response of GET /session/{user_id} to `caller`.
StatsResponse(caller, user_id) ==
  IF caller # user_id
    THEN [status |-> 403, consulted |-> FALSE, body |-> None]
    ELSE LET stats == get_session_stats(sessions, user_id)
         IN IF stats = None
              THEN [status |-> 404, consulted |-> TRUE, body |-> None]
              ELSE [status |-> 200, consulted |-> TRUE, body |-> stats]

\* app.py 123-135: GET /session/{user_id} by an authenticated caller.
GetSessionStats(caller, user_id) ==
  /\ Serving
  /\ running = 0
  /\ caller \in Authenticated
  /\ LET resp == StatsResponse(caller, user_id)
     IN lastStats' = [seq |-> 1 - lastStats.seq, caller |-> caller,
                       user_id |-> user_id, status |-> resp.status,
                       consulted |-> resp.consulted, body |-> resp.body]
  /\ UNCHANGED <<running, asks, lastRegister>>
  /\ UNCHANGED <<startupVars, userVars, coreVars>>

\* app.py 76-80: a POST /ask of an authenticated user reaches the server; the
\* requests take the slots in order.
AskArrive(r, user, question) ==
  /\ Serving
  /\ asks[r].pc = "idle"
  /\ \A o \in AskIds : o < r => asks[o].pc # "idle"
  /\ user \in Authenticated
  /\ asks' = [asks EXCEPT ![r].pc = "pending", ![r].user = user,
                          ![r].question = question]
  /\ UNCHANGED <<running, lastStats, lastRegister>>
  /\ UNCHANGED <<startupVars, userVars, coreVars>>

\* app.py 83-85: user_id = current_user.user_id; if user_id not in sessions.
AskCheckSession(r) ==
  /\ asks[r].pc = "pending"
  /\ CanRun(r)
  /\ asks' = [asks EXCEPT ![r].pc =
                IF asks[r].user \notin DOMAIN sessions THEN "create" ELSE "reset"]
  /\ running' = Held("check", r)
  /\ UNCHANGED <<lastStats, lastRegister>>
  /\ UNCHANGED <<startupVars, userVars, coreVars>>

\* app.py 86: session_manager.create_session(user_id).
AskCreateSession(r) ==
  /\ asks[r].pc = "create"
  /\ CanRun(r)
  /\ sessions' = create_session(sessions, asks[r].user)
  /\ asks' = [asks EXCEPT ![r].pc = "reset",
                          ![r].recreated = (asks[r].user \in DOMAIN sessions),
                          ![r].trace = Append(@, "create_session")]
  /\ running' = Held("create", r)
  /\ UNCHANGED <<lastStats, lastRegister>>
  /\ UNCHANGED <<corpus, articles, envQuestion, action_dim, policy>>
  /\ UNCHANGED <<startupVars, userVars>>

\* app.py 89: state = env.reset(request.question).
AskReset(r) ==
  /\ asks[r].pc = "reset"
  /\ CanRun(r)
  /\ envQuestion' = asks[r].question
  /\ asks' = [asks EXCEPT ![r].pc = "select", ![r].trace = Append(@, "reset")]
  /\ running' = Held("reset", r)
  /\ UNCHANGED <<lastStats, lastRegister>>
  /\ UNCHANGED <<corpus, articles, sessions, action_dim, policy>>
  /\ UNCHANGED <<startupVars, userVars>>

\* app.py 92: article_id = agent.select_action(state, training=False), on the
\* state the request's own reset returned.
AskSelect(r) ==
  /\ asks[r].pc = "select"
  /\ CanRun(r)
  /\ asks' = [asks EXCEPT ![r].pc = "lookup",
                          ![r].action = Some(select_action(policy, asks[r].question)),
                          ![r].trace = Append(@, "select_action")]
  /\ running' = Held("select", r)
  /\ UNCHANGED <<lastStats, lastRegister>>
  /\ UNCHANGED <<startupVars, userVars, coreVars>>

\* app.py 92-93: the action the agent returned is handed to get_article as the
\* article's identifier.
ResolveAction(action) == get_article(articles, action)

\* app.py 93-95: recommended_article = article_db.get_article(article_id).
AskLookup(r) ==
  /\ asks[r].pc = "lookup"
  /\ CanRun(r)
  /\ LET found == ResolveAction(asks[r].action[1])
     IN asks' = [asks EXCEPT ![r].pc = IF found = None THEN "not_found" ELSE "reward",
                             ![r].article = found,
                             ![r].trace = Append(@, "get_article")]
  /\ running' = Held("lookup", r)
  /\ UNCHANGED <<lastStats, lastRegister>>
  /\ UNCHANGED <<startupVars, userVars, coreVars>>

\* app.py 96 and 119-121: HTTPException(404) is raised inside the try block; it
\* is an Exception, so the except clause answers HTTPException(500).
AskNotFound(r) ==
  /\ asks[r].pc = "not_found"
  /\ CanRun(r)
  /\ asks' = [asks EXCEPT ![r].pc = "done", ![r].status = 500]
  /\ running' = 0
  /\ UNCHANGED <<lastStats, lastRegister>>
  /\ UNCHANGED <<startupVars, userVars, coreVars>>

\* app.py 99: reward = env._calculate_reward(recommended_article), against the
\* question the shared env holds.
AskReward(r) ==
  /\ asks[r].pc = "reward"
  /\ CanRun(r)
  /\ asks' = [asks EXCEPT ![r].pc = "add",
                          ![r].reward = Some(calculate_reward(envQuestion, asks[r].article[1])),
                          ![r].ctx = Some(envQuestion),
                          ![r].trace = Append(@, "_calculate_reward")]
  /\ running' = Held("reward", r)
  /\ UNCHANGED <<lastStats, lastRegister>>
  /\ UNCHANGED <<startupVars, userVars, coreVars>>

\* The mutated handler: the interaction is not recorded.
AskAddInteractionSkipped(r) ==
  /\ asks[r].pc = "add"
  /\ CanRun(r)
  /\ asks' = [asks EXCEPT ![r].pc = "format"]
  /\ running' = Held("add", r)
  /\ UNCHANGED <<lastStats, lastRegister>>
  /\ UNCHANGED <<startupVars, userVars, coreVars>>

\* app.py 102-104: session_manager.add_interaction(user_id, question, article, reward).
AskAddInteraction(r) ==
  /\ asks[r].pc = "add"
  /\ CanRun(r)
  /\ sessions' = add_interaction(sessions, asks[r].user, asks[r].question,
                                 asks[r].article[1], asks[r].reward[1])
  /\ asks' = [asks EXCEPT ![r].pc = "format",
                          ![r].trace = Append(@, "add_interaction")]
  /\ running' = Held("add", r)
  /\ UNCHANGED <<lastStats, lastRegister>>
  /\ UNCHANGED <<corpus, articles, envQuestion, action_dim, policy>>
  /\ UNCHANGED <<startupVars, userVars>>

\* app.py 107-117: generate_answer, then the RecommendationResponse is returned.
AskRespond(r) ==
  /\ asks[r].pc = "format"
  /\ CanRun(r)
  /\ asks' = [asks EXCEPT ![r].pc = "done", ![r].status = 200,
                          ![r].session_id = asks[r].user,
                          ![r].trace = Append(@, "generate_answer")]
  /\ running' = 0
  /\ UNCHANGED <<lastStats, lastRegister>>
  /\ UNCHANGED <<startupVars, userVars, coreVars>>

\* The steps of initialize_system and main.
Startup ==
  \/ InitFail
  \/ InitConfig
  \/ InitArticleDb
  \/ InitUserDb
  \/ InitCheckArticles
  \/ InitSessionManager
  \/ InitStateEncoder
  \/ InitEnv
  \/ InitAgent
  \/ PretrainBegin
  \/ PretrainStep
  \/ PretrainFail
  \/ InitResponseGenerator
  \/ MainAfterInit
  \/ MainCreateApi
  \/ MainRunServer
  \/ MainFail

\* The steps of the /ask requests.
Asking ==
  \/ \E r \in AskIds, u \in Users, q \in Questions : AskArrive(r, u, q)
  \/ \E r \in AskIds : AskCheckSession(r)
  \/ \E r \in AskIds : AskCreateSession(r)
  \/ \E r \in AskIds : AskReset(r)
  \/ \E r \in AskIds : AskSelect(r)
  \/ \E r \in AskIds : AskLookup(r)
  \/ \E r \in AskIds : AskNotFound(r)
  \/ \E r \in AskIds : AskReward(r)
  \/ \E r \in AskIds : AskAddInteraction(r)
  \/ \E r \in AskIds : AskRespond(r)

Registering == \E u \in Users, p \in Passwords, s \in Salts : Register(u, p, s)

ReadingStats == \E c \in Users, u \in Users : GetSessionStats(c, u)

Next == Startup \/ Asking \/ Registering \/ ReadingStats

Spec == Init /\ [][Next]_vars

NextAsk == Startup \/ Asking

SpecAsk == Init /\ [][NextAsk]_vars

NextStats == Startup \/ Asking \/ ReadingStats

SpecStats == Init /\ [][NextStats]_vars

NextUsers == Startup \/ Registering

SpecUsers == Init /\ [][NextUsers]_vars

\* ------------------------------------------------------------------ claims
\* The formulas over /ask are checked under SpecAsk, the one over /session under
\* SpecStats and the one over /register under SpecUsers.  GetSessionStats writes
\* lastStats only and Register writes the user variables and lastRegister only,
\* so each of these specifications yields the behaviours of Spec on the
\* variables its formulas read.

AskCallOrder ==
  <<"reset", "select_action", "get_article", "_calculate_reward",
    "add_interaction", "generate_answer">>

\* The calls of a request after its optional create_session.
CallsAfterSession(trace) ==
  IF trace # <<>> /\ Head(trace) = "create_session" THEN Tail(trace) ELSE trace

Called(r, name) == \E i \in 1..Len(asks[r].trace) : asks[r].trace[i] = name

Interaction(r) ==
  [question |-> asks[r].question, article |-> asks[r].article[1],
   reward |-> asks[r].reward[1]]

\* Request r is between its session test and the end of its append.
InSessionUpdate(r) ==
  asks[r].pc \in {"create", "reset", "select", "lookup", "not_found", "reward", "add"}

IsPrefix(s, t) == Len(s) <= Len(t) /\ SubSeq(t, 1, Len(s)) = s

PretrainOver == pretrainPc \in {"completed", "skipped"}

RECURSIVE NoDuplicates(_)
NoDuplicates(s) ==
  IF s = <<>> THEN TRUE
  ELSE /\ \A i \in 2..Len(s) : s[i] # Head(s)
       /\ NoDuplicates(Tail(s))

\* Every user of `old` is in `new` with the same record.
Kept(old, new) == \A u \in DOMAIN old : u \in DOMAIN new /\ new[u] = old[u]

\* C1: every /ask answered 200 ran env.reset, select_action, get_article,
\* _calculate_reward, add_interaction and generate_answer in this order, each
\* exactly once; its interaction is stored under the authenticated user, whose
\* id is the session_id returned.
C1_AnswerComposesPipeline ==
  \A r \in AskIds :
    asks[r].status = 200 =>
      /\ CallsAfterSession(asks[r].trace) = AskCallOrder
      /\ asks[r].session_id = asks[r].user
      /\ asks[r].user \in DOMAIN sessions
      /\ \E i \in 1..Len(sessions[asks[r].user]) :
           sessions[asks[r].user][i] = Interaction(r)

\* An answered request of alice that also created her session.
C1_Witness ==
  \E r \in AskIds :
    /\ asks[r].status = 200
    /\ asks[r].user = "alice"
    /\ Called(r, "create_session")

\* C2: an /ask whose article lookup returned None is answered 404, and the
\* server keeps serving.
C2_AbsentArticleAnswers404 ==
  \A r \in AskIds :
    (asks[r].pc = "done" /\ asks[r].article = None) =>
      (asks[r].status = 404 /\ Serving)

\* C3: with no article loaded, initialize_system returns None before the session
\* manager, state encoder, environment or agent exists, and main neither builds
\* the API nor starts the server.
C3_EmptyCorpusRefusesToServe ==
  ("article_db" \in built /\ articles = <<>>) =>
    /\ built \cap {"session_manager", "state_encoder", "env", "agent", "api"} = {}
    /\ initPc \in {"user_db", "check_articles", "refused", "failed"}
    /\ initResult # "components"
    /\ (initPc = "refused" => initResult = "None")
    /\ mainPc \in {"initialize", "exited"}

\* The start-up was refused for want of articles and main has returned.
C3_Witness ==
  /\ articles = <<>>
  /\ initPc = "refused"
  /\ "error_no_articles" \in log
  /\ mainPc = "exited"

\* The state part of C4.
C4_SessionUpdatesExclusive ==
  /\ \A r1, r2 \in AskIds :
       (r1 # r2 /\ asks[r1].user = asks[r2].user) =>
         ~(InSessionUpdate(r1) /\ InSessionUpdate(r2))
  /\ \A r \in AskIds : ~asks[r].recreated
  /\ \A u \in Users :
       Cardinality({r \in AskIds : asks[r].user = u /\ Called(r, "create_session")}) <= 1

\* The step part of C4.
C4_SessionsOnlyGrow ==
  /\ \A u \in DOMAIN sessions :
       u \in DOMAIN sessions' /\ IsPrefix(sessions[u], sessions'[u])
  /\ \A r \in AskIds :
       (asks[r].pc = "add" /\ asks'[r].pc # "add") =>
         /\ asks[r].user \in DOMAIN sessions
         /\ sessions'[asks[r].user] = Append(sessions[asks[r].user], Interaction(r))

\* C4: the session updates of two /ask requests of one user never overlap: while
\* one is between its session test and its append, the other is not; the
\* handler calls create_session at most once per user and never on an existing
\* session; no step removes a session or an interaction, and each append adds
\* exactly the request's interaction to what the session held.
C4_NoLostSessionUpdate ==
  []C4_SessionUpdatesExclusive /\ [][C4_SessionsOnlyGrow]_vars

\* Two answered requests of one user: the first created the session, the second
\* found it, and the session holds both interactions.
C4_Witness ==
  \E r1, r2 \in AskIds :
    /\ r1 # r2
    /\ asks[r1].user = asks[r2].user
    /\ asks[r1].status = 200
    /\ asks[r2].status = 200
    /\ Called(r1, "create_session")
    /\ ~Called(r2, "create_session")
    /\ Len(sessions[asks[r1].user]) = 2

\* C5: a pretraining that raises is logged as a warning and does not abort the
\* start-up: the agent built before it stays, initialize_system returns the
\* full component set, and only the failure of a later step keeps the server
\* from starting.
C5_PretrainFailureIsNotFatal ==
  pretrainPc = "skipped" =>
    /\ "warning_pretraining_skipped" \in log
    /\ "agent" \in built
    /\ failedAt # "pretrain"
    /\ initPc \in {"response_generator", "returned", "failed"}
    /\ (initPc = "returned" =>
          /\ initResult = "components"
          /\ {"config", "article_db", "user_db", "session_manager", "state_encoder",
              "env", "agent", "response_generator"} \subseteq built)
    /\ (initPc = "failed" => failedAt = "response_generator")
    /\ (mainPc = "exited" =>
          failedAt \in {"response_generator", "create_api", "run_server"})

\* Pretraining raised, and the server answered a question.
C5_Witness ==
  /\ pretrainPc = "skipped"
  /\ Serving
  /\ \E r \in AskIds : asks[r].status = 200

\* C6: pretraining is attempted at most once, only once the environment and the
\* agent exist, and it is over before main builds the API and serves: no /ask
\* has arrived while pretraining has not finished.
C6_PretrainOnceBeforeServing ==
  /\ pretrainAttempts <= 1
  /\ (pretrainPc # "idle" => {"env", "agent"} \subseteq built)
  /\ (mainPc \in {"create_api", "run_server", "serving"} => PretrainOver)
  /\ \A r \in AskIds : asks[r].pc # "idle" => PretrainOver

\* Pretraining ran once to its end, and a request was handled afterwards.
C6_Witness ==
  /\ pretrainPc = "completed"
  /\ pretrainAttempts = 1
  /\ \E r \in AskIds : asks[r].pc = "done"

\* C7: once the environment exists, every action in [0, action_dim) resolves to
\* an article of the store, distinct actions to distinct articles, and every
\* article of the store is the resolution of some action.
C7_ActionsResolveBijectively ==
  "env" \in built =>
    /\ \A a \in 0..(action_dim - 1) : ResolveAction(a) # None
    /\ \A a, b \in 0..(action_dim - 1) :
         ResolveAction(a) = ResolveAction(b) => a = b
    /\ \A i \in 1..Len(articles) :
         \E a \in 0..(action_dim - 1) : ResolveAction(a) = Some(articles[i])

\* C8: between a request's env.reset and its reward computation the shared env
\* holds that request's question, so every reward is computed against the
\* question of the request it is recorded for.
C8_RewardUsesOwnQuestion ==
  \A r \in AskIds :
    /\ asks[r].pc \in {"select", "lookup", "not_found", "reward"} =>
         envQuestion = asks[r].question
    /\ asks[r].ctx # None => asks[r].ctx = Some(asks[r].question)
    /\ asks[r].reward # None =>
         asks[r].reward = Some(calculate_reward(asks[r].question, asks[r].article[1]))

\* A request is about to compute its reward while a request with another
\* question waits for the event loop.
C8_Witness ==
  \E r1, r2 \in AskIds :
    /\ asks[r1].pc = "reward"
    /\ asks[r2].pc = "pending"
    /\ asks[r1].question # asks[r2].question

\* The step part of C9.
C9_UsersStep ==
  /\ Kept(fileUsers, fileUsers')
  /\ Kept(apiUsers, apiUsers')
  /\ Kept(mainUsers, mainUsers')
  /\ lastRegister'.seq # lastRegister.seq =>
       IF lastRegister'.username \in DOMAIN apiUsers
         THEN /\ lastRegister'.status = 400
              /\ UNCHANGED <<apiUsers, fileUsers, mainUsers, created>>
         ELSE /\ lastRegister'.status = 200
              /\ lastRegister'.username \in DOMAIN apiUsers'
              /\ fileUsers' = apiUsers'
              /\ created' = Append(created, lastRegister'.username)

C10_ForeignIsForbidden ==
  (lastStats.status # 0 /\ lastStats.caller # lastStats.user_id) =>
    /\ lastStats.status = 403
    /\ ~lastStats.consulted
    /\ lastStats.body = None

\* The step part of C10.
C10_OwnIsAnswered ==
  (lastStats'.seq # lastStats.seq /\ lastStats'.caller = lastStats'.user_id) =>
    /\ lastStats'.consulted
    /\ lastStats'.body = get_session_stats(sessions, lastStats'.caller)
    /\ lastStats'.status = IF lastStats'.body = None THEN 404 ELSE 200

\* C10: GET /session/{user_id} by another user is answered 403 without the
\* session store being read, whatever the store holds; for the caller's own id
\* it answers the store's stats, or 404 when the store reports none.
C10_SessionStatsOwnerOnly ==
  []C10_ForeignIsForbidden /\ [][C10_OwnIsAnswered]_vars

\* Another user's stats were refused although that user's session holds
\* interactions.
C10_Witness ==
  /\ lastStats.status = 403
  /\ lastStats.user_id \in DOMAIN sessions
  /\ sessions[lastStats.user_id] # <<>>

====
